---- MODULE Spec2Model ----
(***************************************************************************)
(* A model of the node-hyper OLAP cube: Cell (lib/Cell.js), FactIndex      *)
(* (lib/FactIndex.js) and Cube (lib/Cube.js).                              *)
(*                                                                         *)
(* Cubes are objects: the heap is a sequence of cube records and a cube    *)
(* is named by its position in the heap.  heap[1] is the source cube S the *)
(* caller builds by insert/merge; a query on S constructs new cubes, of    *)
(* which the caller keeps one (d).  Cells are never mutated by any         *)
(* operation, so a cell is modelled by its value.                          *)
(*                                                                         *)
(* JavaScript values: `undefined`/`null` against a defined value is an     *)
(* option, None or Some(x); a JavaScript number that may be non-finite     *)
(* (the result of a division) is a record with a tag.                      *)
(***************************************************************************)
EXTENDS Integers, Sequences, FiniteSets, TLC

\* ------------------------------------------------------------ bounds
\* The most cells a cube holds in the model.
MaxCells == 3

\* ------------------------------------------------------------ JS values
None == <<>>
Some(x) == <<x>>
IsDef(o) == o /= <<>>
Val(o) == o[1]

\* A string used as a condition: the empty string is falsy.
Truthy(s) == s /= ""

\* ------------------------------------------------------------ Cell
\* new Cell(facts, measures, opt_time): `opt_time ? opt_time : null`, so
\* an absent timestamp and the timestamp 0 both leave time = null.
CellTime(opt_time) == IF IsDef(opt_time) /\ Val(opt_time) /= 0 THEN opt_time ELSE None

Cell(args) ==
  [time |-> CellTime(args.opt_time), facts |-> args.facts, measures |-> args.measures]

\* The constructor calls the caller makes.  Each has its own facts, so a
\* cell's value tells which call made it.
CellArgs ==
  { [facts |-> ("g" :> "a") @@ ("y" :> "a"), measures |-> ("v" :> 1), opt_time |-> None],
    [facts |-> ("g" :> "b") @@ ("y" :> "a"), measures |-> ("v" :> 2), opt_time |-> Some(5)],
    [facts |-> ("g" :> "a") @@ ("y" :> "b"), measures |-> ("v" :> 1) @@ ("w" :> 0),
     opt_time |-> Some(0)],
    [facts |-> ("g" :> ""), measures |-> ("v" :> 2), opt_time |-> Some(-2)] }

Cells == { Cell(a) : a \in CellArgs }

\* A faulty sum function, which forgets the aggregate (`agg = inc` on
\* every call).
SumFnOverwrite(agg, inc) == inc

\* The aggregation function of Cube.sum with opt_precision undefined: the
\* first call for a measure has agg undefined.
SumFn(agg, inc) == IF IsDef(agg) THEN Val(agg) + inc ELSE inc

\* Cell.aggregate: one cell's measures m folded into the running measure
\* set, `measures[key] = fn(measures[key], val)`, fn being Cube.sum's.
AggregateCell(acc, m) ==
  [k \in (DOMAIN acc) \cup (DOMAIN m) |->
     IF k \in DOMAIN m
       THEN SumFn(IF k \in DOMAIN acc THEN Some(acc[k]) ELSE None, m[k])
       ELSE acc[k]]

\* Cell.aggregate(cells, fn), fn being the function Cube.sum passes
Aggregate(cells) ==
  LET f[i \in 0..Len(cells)] ==
        IF i = 0 THEN << >> ELSE AggregateCell(f[i - 1], cells[i].measures)
  IN  f[Len(cells)]

\* ------------------------------------------------------------ FactIndex
\* A FactIndex maps a value to the list of positions carrying it.
NewFactIndex == << >>

FactIndexInsert(index, value, position) ==
  [v \in (DOMAIN index) \cup {value} |->
     IF v = value
       THEN (IF v \in DOMAIN index THEN Append(index[v], position) ELSE <<position>>)
       ELSE index[v]]

\* The position list, or undefined for a value never inserted.
FactIndexGet(index, value) ==
  IF value \in DOMAIN index THEN Some(index[value]) ELSE None

\* ------------------------------------------------------------ ps helpers
Range(s) == { s[i] : i \in 1..Len(s) }

\* ps.array.intersect(a, b): the elements of a that are in b, in a's order
ArrayIntersect(a, b) == SelectSeq(a, LAMBDA x : x \in Range(b))

\* ps.array.diff(a, b): the elements of a that are not in b, in a's order
ArrayDiff(a, b) == SelectSeq(a, LAMBDA x : x \notin Range(b))

\* ps.array.keys(array): the positions 0 .. length-1
ArrayKeys(a) == [i \in 1..Len(a) |-> i - 1]

\* ps.array.unique(a): first occurrences, in order
ArrayUnique(a) ==
  LET f[i \in 0..Len(a)] ==
        IF i = 0 THEN << >>
        ELSE IF a[i] \in Range(f[i - 1]) THEN f[i - 1] ELSE Append(f[i - 1], a[i])
  IN  f[Len(a)]

\* ps.object.fill(names, 0)
ObjectFill(names, x) == [k \in Range(names) |-> x]

\* UTF-16 code units of the one-letter dimension names, the order of
\* Array.prototype.sort() on them.
CodeUnit == ("g" :> 103) @@ ("y" :> 121) @@ ("z" :> 122)

\* ps.array.keys(object) followed by .sort()
SortedKeys(names) ==
  LET n == Cardinality(names)
      Rank(x) == Cardinality({ y \in names : CodeUnit[y] < CodeUnit[x] })
  IN  [r \in 1..n |-> CHOOSE x \in names : Rank(x) = r - 1]

\* A stable ascending sort of seq by the integer keys key[i] (_.sortBy).
StableSort(seq, key) ==
  LET n == Len(seq)
      Rank(i) == Cardinality({ j \in 1..n :
                     key[j] < key[i] \/ (key[j] = key[i] /\ j < i) })
  IN  [r \in 1..n |-> seq[CHOOSE i \in 1..n : Rank(i) = r - 1]]

\* ------------------------------------------------------------ Cube
\* new Cube(opt_measureNames)
EmptyCube(measureNames) ==
  [cells |-> << >>, indecies |-> << >>, factNames |-> << >>,
   measureNames |-> measureNames]

\* A faulty insert, which leaves the cached names as they are.
KeptFactNames(cube) == cube.factNames

\* Cube.insert: `this._factNames = []`
InvalidatedFactNames(cube) == << >>

\* A faulty insert, which takes the position after the push.
PositionOneBased(cube) == Len(cube.cells) + 1

\* Cube.insert: `position = this.cells.length`, read before the push
InsertPosition(cube) == Len(cube.cells)

\* Cube.insert(cell).  Each fact of the cell goes to its own index, so the
\* _.each loop over cell.facts has the same effect in any order.
CubeInsert(cube, cell) ==
  LET position == InsertPosition(cube)
      idx == cube.indecies
  IN  [cube EXCEPT
        !.factNames = InvalidatedFactNames(cube),
        !.indecies =
          [n \in (DOMAIN idx) \cup (DOMAIN cell.facts) |->
             IF n \in DOMAIN cell.facts
               THEN FactIndexInsert(IF n \in DOMAIN idx THEN idx[n] ELSE NewFactIndex,
                                    cell.facts[n], position)
               ELSE idx[n]],
        !.cells = Append(cube.cells, cell)]

\* The cells inserted one after the other (the loops of slice, merge, ...).
InsertAll(cube, cells) ==
  LET f[i \in 0..Len(cells)] ==
        IF i = 0 THEN cube ELSE CubeInsert(f[i - 1], cells[i])
  IN  f[Len(cells)]

\* Cube.count
Count(cube) == Len(cube.cells)

\* Cube.getFactNames: the cube after the call (the cache is filled when it
\* was empty) and the list returned.
GetFactNames(cube) ==
  LET names == IF Len(cube.factNames) = 0
                 THEN SortedKeys(DOMAIN cube.indecies)
                 ELSE cube.factNames
  IN  [cube |-> [cube EXCEPT !.factNames = names], out |-> names]

\* A faulty loop, which stops one cell early.
AllButLast(cube) == 1..(Len(cube.cells) - 1)

\* Cube.getFactValues: the loop `for (i = 0, il = this.cells.length; i < il; ++i)`
ScannedCells(cube) == 1..Len(cube.cells)

\* Cube.getFactValues(factName)
GetFactValues(cube, factName) ==
  LET Carries(i) == /\ i \in ScannedCells(cube)
                    /\ factName \in DOMAIN cube.cells[i].facts
                    /\ Truthy(cube.cells[i].facts[factName])
      f[i \in 0..Len(cube.cells)] ==
        IF i = 0 THEN << >>
        ELSE IF Carries(i) THEN Append(f[i - 1], cube.cells[i].facts[factName])
             ELSE f[i - 1]
  IN  ArrayUnique(f[Len(cube.cells)])

\* A faulty accumulation, which takes the else branch every time.
LastConstraintWins(hits, factPositions) == factPositions

\* Cube._getPos: `if (hits) intersect else hits = factPositions`.  An
\* empty array is truthy, so only undefined takes the else branch.
Accumulate(hits, factPositions) ==
  IF IsDef(hits) THEN ArrayIntersect(Val(hits), factPositions) ELSE factPositions

\* Cube._getPos: one call of the _.each callback; hits is undefined before
\* the first constraint.  _.each ignores the callback's `return false`, so
\* every constraint is visited.
GetPosStep(cube, hits, factName, factValue) ==
  IF factName \notin DOMAIN cube.indecies THEN Some(<< >>)
  ELSE LET factPositions == FactIndexGet(cube.indecies[factName], factValue)
       IN  IF ~IsDef(factPositions) THEN Some(<< >>)
           ELSE Some(Accumulate(hits, Val(factPositions)))

\* Cube._getPos(facts): facts is the query, a sequence of <<name, value>>
\* in the mapping's enumeration order.  Undefined for the empty mapping.
GetPos(cube, facts) ==
  LET f[i \in 0..Len(facts)] ==
        IF i = 0 THEN None
        ELSE GetPosStep(cube, f[i - 1], facts[i][1], facts[i][2])
  IN  f[Len(facts)]

\* The cells at the given 0-based positions.
CellsAt(cube, positions) == [i \in 1..Len(positions) |-> cube.cells[positions[i] + 1]]

\* A faulty query, which fills the cube it was called on instead of a
\* new one.
NewAliased(h, this) == [heap |-> h, ref |-> this]

\* `new Cube(this._measureNames)` in a query of cube `this`: the heap with
\* the new object and the reference to it.
New(h, this) ==
  [heap |-> Append(h, EmptyCube(h[this].measureNames)), ref |-> Len(h) + 1]

\* The loop `for (...) cube.insert(cells[i])` on the cube at ref.
Fill(h, ref, cells) == [h EXCEPT ![ref] = InsertAll(h[ref], cells)]

\* A query's return: the heap after it, whether it threw, and the cube
\* returned.
Returned(h, ref) == [heap |-> h, raised |-> FALSE, ref |-> ref]

Thrown(h) == [heap |-> h, raised |-> TRUE, ref |-> 0]

\* Cube.slice(facts).  `hits.length` with hits undefined is a TypeError.
Slice(h, this, facts) ==
  LET n == New(h, this)
      hits == GetPos(h[this], facts)
  IN  IF ~IsDef(hits) THEN Thrown(h)
      ELSE Returned(Fill(n.heap, n.ref, CellsAt(h[this], Val(hits))), n.ref)

\* What ps.array.diff(array, undefined) does is not fixed by anything in
\* the repository's description: it throws, or it removes nothing.
DiffOfUndefined == {"throws", "removes nothing"}

\* Cube.dice(facts)
Dice(h, this, facts, ofUndefined) ==
  LET n == New(h, this)
      keys == ArrayKeys(h[this].cells)
      hits == GetPos(h[this], facts)
  IN  IF ~IsDef(hits) /\ ofUndefined = "throws" THEN Thrown(h)
      ELSE LET inverted == IF IsDef(hits) THEN ArrayDiff(keys, Val(hits)) ELSE keys
           IN  Returned(Fill(n.heap, n.ref, CellsAt(h[this], inverted)), n.ref)

\* A cell's time in a comparison with a number: null converts to 0.
ToNumber(time) == IF IsDef(time) THEN Val(time) ELSE 0

\* Cube.sliceTime(fromTime, toTime)
SliceTime(h, this, fromTime, toTime) ==
  LET n == New(h, this)
      Match(cell) == ToNumber(cell.time) >= fromTime /\ ToNumber(cell.time) < toTime
  IN  Returned(Fill(n.heap, n.ref, SelectSeq(h[this].cells, Match)), n.ref)

\* The callbacks the caller passes to sliceBy.
Iterators == {"evenPosition", "hasY"}

CallIterator(iterator, cell, i) ==
  IF iterator = "evenPosition" THEN i % 2 = 0 ELSE "y" \in DOMAIN cell.facts

\* Cube.sliceBy(iterator)
SliceBy(h, this, iterator) ==
  LET n == New(h, this)
      cells == h[this].cells
      Match(i) == CallIterator(iterator, cells[i + 1], i)
  IN  Returned(Fill(n.heap, n.ref, CellsAt(h[this], SelectSeq(ArrayKeys(cells), Match))),
               n.ref)

\* Cube.groupBy(factName): the keys of the returned object, in the order
\* they were set, and the cube under each.
GroupBy(h, this, factName) ==
  LET factValues == GetFactValues(h[this], factName)
      f[i \in 0..Len(factValues)] ==
        IF i = 0 THEN [heap |-> h, refs |-> << >>]
        ELSE LET s == Slice(f[i - 1].heap, this, << <<factName, factValues[i]>> >>)
             IN  [heap |-> s.heap, refs |-> Append(f[i - 1].refs, s.ref)]
  IN  [heap |-> f[Len(factValues)].heap, keys |-> factValues,
       refs |-> f[Len(factValues)].refs]

\* Cube.sum() with opt_precision undefined
Sum(cube) ==
  IF Len(cube.cells) = 0
    THEN (IF IsDef(cube.measureNames) THEN ObjectFill(Val(cube.measureNames), 0)
          ELSE << >>)
    ELSE Aggregate(cube.cells)

\* Cube.sortBy(factName, measureName, limit); limit is None when omitted.
SortBy(h, this, factName, measureName, limit) ==
  LET groups == GroupBy(h, this, factName)
      key == [i \in 1..Len(groups.refs) |->
                Sum(groups.heap[groups.refs[i]])[measureName] * (-1)]
      sorted == StableSort(groups.refs, key)
      cubes == IF IsDef(limit) /\ Val(limit) /= 0
                 THEN SubSeq(sorted, 1, IF Val(limit) < Len(sorted) THEN Val(limit)
                                        ELSE Len(sorted))
                 ELSE sorted
  IN  [heap |-> groups.heap,
       keys |-> [i \in 1..Len(cubes) |-> groups.heap[cubes[i]].cells[1].facts[factName]],
       refs |-> cubes]

\* The scoring callbacks the caller passes to sliceTop.
Scorers == {"v", "minus v"}

CallScorer(iterator, measures) ==
  IF iterator = "v" THEN measures["v"] ELSE 0 - measures["v"]

\* Cube.sliceTop(limit, iterator); limit is None when omitted.
SliceTop(h, this, limit, iterator) ==
  LET cells == h[this].cells
      key == [i \in 1..Len(cells) |-> CallScorer(iterator, cells[i].measures)]
      topCells == StableSort(cells, key)
      n == New(h, this)
      taken == IF IsDef(limit) /\ Val(limit) < Len(topCells)
                 THEN SubSeq(topCells, 1, Val(limit)) ELSE topCells
  IN  Returned(Fill(n.heap, n.ref, taken), n.ref)

\* Cube.merge(cube) on the cube at a with the cube at b: the loop bound
\* is read once, so merging a cube with itself doubles it.
CubeMerge(h, a, b) == [h EXCEPT ![a] = InsertAll(h[a], h[b].cells)]

\* ------------------------------------------------------------ numbers
\* A JavaScript number that a division may have produced.
Num(n) == [tag |-> "finite", num |-> n, den |-> 1]

NaN == [tag |-> "NaN", num |-> 0, den |-> 0]

Infinity(sign) == [tag |-> "Infinity", num |-> sign, den |-> 0]

Abs(n) == IF n < 0 THEN 0 - n ELSE n

RECURSIVE Gcd(_, _)
Gcd(a, b) == IF b = 0 THEN a ELSE Gcd(b, a % b)

\* value / count for an integer value; count is None when undefined.
Divide(value, count) ==
  IF ~IsDef(count) THEN NaN
  ELSE IF Val(count) = 0
    THEN (IF value = 0 THEN NaN ELSE Infinity(IF value > 0 THEN 1 ELSE -1))
  ELSE LET g == Gcd(Abs(value), Abs(Val(count)))
           s == IF Val(count) < 0 THEN -1 ELSE 1
       IN  [tag |-> "finite", num |-> s * (value \div g),
            den |-> s * (Val(count) \div g)]

\* Cube.avg: `value = value ? value / count : value`
AvgValue(value, count) == IF value /= 0 THEN Divide(value, count) ELSE Num(value)

\* Cube.avg(count) with opt_precision undefined
Avg(cube, count) ==
  LET sums == Sum(cube)
      avgs == [k \in DOMAIN sums |-> AvgValue(sums[k], count)]
  IN  IF DOMAIN sums = {} /\ IsDef(cube.measureNames)
        THEN ObjectFill(Val(cube.measureNames), Num(0))
        ELSE avgs

\* ------------------------------------------------------------ state
\* heap: the cube objects; heap[1] is the source cube S.
\* d:    the reference to the derived cube the caller holds, 0 for none.
\* res:  what the last call was, its arguments and what it returned.
VARIABLES heap, d, res

vars == <<heap, d, res>>

\* The arguments the caller passes.
QueryNames == {"g", "y", "z"}

\* The constraints of the caller's queries: values some cell may carry,
\* and a dimension ("z") no cell carries.
Constraints ==
  { <<"g", "a">>, <<"g", "">>, <<"y", "a">>, <<"y", "b">>, <<"z", "a">> }

\* The two-constraint mappings of the caller's queries.
Pairs ==
  { <<"g", "a">>, <<"z", "a">> } \X { <<"y", "a">>, <<"y", "b">> }

\* A constraint mapping, in its enumeration order.
Queries ==
  {<< >>} \cup { <<c>> : c \in Constraints }
          \cup { <<p[1], p[2]>> : p \in Pairs } \cup { <<p[2], p[1]>> : p \in Pairs }

FromTimes == {-3, 0}

ToTimes == {0, 6}

Counts == {None, Some(0), Some(2)}

Limits == {None, Some(1)}

\* The measure names the caller may construct S with.
ExpectedMeasures == {None, Some(<<"v">>)}

\* The caller keeps S and the cube at ref, and drops every other cube.
Kept(h, ref) == IF ref \in {0, 1} THEN <<h[1]>> ELSE <<h[1], h[ref]>>

KeptRef(ref) == IF ref \in {0, 1} THEN ref ELSE 2

\* The cells of the cube a query returned.
Out(r) == IF r.raised THEN << >> ELSE r.heap[r.ref].cells

\* The cells the caller holds in S and in the derived cube.
Held == Len(heap[1].cells) + (IF d \in {0, 1} THEN 0 ELSE Len(heap[d].cells))

\* The caller works with one derived cube at a time: it calls S only
\* while it holds no derived cube (d = 0), except to merge the two and to
\* dice what it has just sliced.
Init ==
  /\ \E m \in ExpectedMeasures : heap = <<EmptyCube(m)>>
  /\ d = 0
  /\ res = [op |-> "new"]

\* The caller lets go of the derived cube.
Release ==
  /\ d /= 0
  /\ heap' = <<heap[1]>>
  /\ d' = 0
  /\ res' = [op |-> "release"]

\* S.insert(cell)
InsertSource(cell) ==
  /\ d = 0
  /\ Len(heap[1].cells) < MaxCells
  /\ heap' = [heap EXCEPT ![1] = CubeInsert(heap[1], cell)]
  /\ res' = [op |-> "insert", target |-> 1, dropped |-> heap[1].factNames]
  /\ UNCHANGED d

\* D.insert(cell) on the derived cube the caller holds
InsertDerived(cell) ==
  /\ d /= 0
  /\ Held < MaxCells
  /\ heap' = [heap EXCEPT ![d] = CubeInsert(heap[d], cell)]
  /\ res' = [op |-> "insert", target |-> d, dropped |-> heap[d].factNames]
  /\ UNCHANGED d

\* a.merge(b), a and b each S or the derived cube
Merge(a, b) ==
  /\ a /= 0 /\ b /= 0
  /\ Held + Len(heap[b].cells) <= MaxCells
  /\ heap' = CubeMerge(heap, a, b)
  /\ res' = [op |-> "merge", target |-> a, other |-> b]
  /\ UNCHANGED d

\* S.getFactNames(); `after` is the cache the preceding insert into S
\* dropped, when the call follows one.
DoGetFactNames ==
  \E r \in {GetFactNames(heap[1])} :
      /\ d = 0
      /\ heap' = [heap EXCEPT ![1] = r.cube]
      /\ res' = [op |-> "getFactNames", out |-> r.out,
                 after |-> IF res.op = "insert" /\ res.target = 1
                             THEN Some(res.dropped) ELSE None]
      /\ UNCHANGED d

\* S.slice(facts)
DoSlice(facts) ==
  /\ d = 0
  /\ \E r \in {Slice(heap, 1, facts)} :
      /\ heap' = Kept(r.heap, r.ref)
      /\ d' = KeptRef(r.ref)
      /\ res' = [op |-> "slice", facts |-> facts, raised |-> r.raised, out |-> Out(r)]

\* S.dice(facts).  The caller may follow S.slice(facts) by S.dice(facts);
\* `sliced` is then what the slice gave.
DoDice(facts) ==
  /\ d = 0 \/ (res.op = "slice" /\ res.facts = facts)
  /\ \E u \in (IF IsDef(GetPos(heap[1], facts)) THEN {"throws"} ELSE DiffOfUndefined) :
      \E r \in {Dice(heap, 1, facts, u)} :
        /\ heap' = Kept(r.heap, r.ref)
        /\ d' = KeptRef(r.ref)
        /\ res' = [op |-> "dice", facts |-> facts, raised |-> r.raised, out |-> Out(r),
                   sliced |-> IF res.op = "slice" /\ res.facts = facts
                                THEN Some([raised |-> res.raised, out |-> res.out])
                                ELSE None]

\* S.sliceTime(fromTime, toTime)
DoSliceTime(fromTime, toTime) ==
  /\ d = 0
  /\ \E r \in {SliceTime(heap, 1, fromTime, toTime)} :
      /\ heap' = Kept(r.heap, r.ref)
      /\ d' = KeptRef(r.ref)
      /\ res' = [op |-> "sliceTime", fromTime |-> fromTime, toTime |-> toTime,
                 out |-> Out(r)]

\* S.sliceBy(iterator)
DoSliceBy(iterator) ==
  /\ d = 0
  /\ \E r \in {SliceBy(heap, 1, iterator)} :
      /\ heap' = Kept(r.heap, r.ref)
      /\ d' = KeptRef(r.ref)
      /\ res' = [op |-> "sliceBy", iterator |-> iterator, out |-> Out(r)]

\* The caller keeps one of the cubes of a returned collection.
KeepOneOf(g) ==
  \E k \in 0..Len(g.refs) :
    /\ k = 0 <=> Len(g.refs) = 0
    /\ heap' = Kept(g.heap, IF k = 0 THEN 0 ELSE g.refs[k])
    /\ d' = KeptRef(IF k = 0 THEN 0 ELSE g.refs[k])

\* S.groupBy(factName)
DoGroupBy(factName) ==
  /\ d = 0
  /\ \E g \in {GroupBy(heap, 1, factName)} :
      /\ KeepOneOf(g)
      /\ res' = [op |-> "groupBy", factName |-> factName, keys |-> g.keys,
                 out |-> [i \in 1..Len(g.refs) |-> g.heap[g.refs[i]].cells]]

\* S.sortBy(factName, "v", limit)
DoSortBy(factName, limit) ==
  /\ d = 0
  /\ \E g \in {SortBy(heap, 1, factName, "v", limit)} :
      /\ KeepOneOf(g)
      /\ res' = [op |-> "sortBy", factName |-> factName, limit |-> limit,
                 keys |-> g.keys,
                 out |-> [i \in 1..Len(g.refs) |-> g.heap[g.refs[i]].cells]]

\* S.sliceTop(limit, iterator)
DoSliceTop(limit, iterator) ==
  /\ d = 0
  /\ \E r \in {SliceTop(heap, 1, limit, iterator)} :
      /\ heap' = Kept(r.heap, r.ref)
      /\ d' = KeptRef(r.ref)
      /\ res' = [op |-> "sliceTop", limit |-> limit, iterator |-> iterator,
                 out |-> Out(r)]

\* S.sum()
DoSum ==
  /\ d = 0
  /\ res' = [op |-> "sum", out |-> Sum(heap[1])]
  /\ UNCHANGED <<heap, d>>

\* S.avg(count)
DoAvg(count) ==
  /\ d = 0
  /\ res' = [op |-> "avg", count |-> count, out |-> Avg(heap[1], count)]
  /\ UNCHANGED <<heap, d>>

Next ==
  \/ Release
  \/ \E cell \in Cells : InsertSource(cell)
  \/ \E cell \in Cells : InsertDerived(cell)
  \/ \E a \in {1, d}, b \in {1, d} : Merge(a, b)
  \/ DoGetFactNames
  \/ \E facts \in Queries : DoSlice(facts)
  \/ \E facts \in Queries : DoDice(facts)
  \/ \E fromTime \in FromTimes, toTime \in ToTimes : DoSliceTime(fromTime, toTime)
  \/ \E iterator \in Iterators : DoSliceBy(iterator)
  \/ \E factName \in QueryNames : DoGroupBy(factName)
  \/ \E factName \in QueryNames, limit \in Limits : DoSortBy(factName, limit)
  \/ \E limit \in Limits, iterator \in Scorers : DoSliceTop(limit, iterator)
  \/ DoSum
  \/ \E count \in Counts : DoAvg(count)

Spec == Init /\ [][Next]_vars

\* ------------------------------------------------------------ claims
S == heap[1]

\* The cell satisfies every constraint of the mapping.
Matches(cell, facts) ==
  \A i \in 1..Len(facts) :
    /\ facts[i][1] \in DOMAIN cell.facts
    /\ cell.facts[facts[i][1]] = facts[i][2]

\* The cells at the 0-based positions in P, in ascending position.
CellsOn(cells, P) ==
  LET f[i \in 0..Len(cells)] ==
        IF i = 0 THEN << >>
        ELSE IF (i - 1) \in P THEN Append(f[i - 1], cells[i]) ELSE f[i - 1]
  IN  f[Len(cells)]

\* C1: for every constraint mapping q, the empty mapping and mappings
\* naming an unknown dimension or value included, S.slice(q) returns
\* without raising a cube whose cells are exactly the cells of S that
\* carry q's value on every dimension q names, in ascending position.
C1_SliceSelectsMatching ==
  res.op = "slice" =>
    /\ ~res.raised
    /\ res.out = SelectSeq(S.cells, LAMBDA c : Matches(c, res.facts))

\* C2: for every constraint mapping q, S.slice(q) and S.dice(q) partition
\* S's cell sequence: every position of S is in exactly one of the two
\* results.
C2_SliceDicePartition ==
  (res.op = "dice" /\ IsDef(res.sliced)) =>
    /\ ~res.raised
    /\ ~Val(res.sliced).raised
    /\ \E P \in SUBSET (0..(Len(S.cells) - 1)) :
         /\ Val(res.sliced).out = CellsOn(S.cells, P)
         /\ res.out = CellsOn(S.cells, (0..(Len(S.cells) - 1)) \ P)
    /\ Len(Val(res.sliced).out) + Len(res.out) = Count(S)

\* The dimension names on the cells of a cube.
NamesOf(cube) == UNION { DOMAIN cube.cells[i].facts : i \in 1..Len(cube.cells) }

\* Every dimension name on a cell has an index; position p is recorded
\* under value v of dimension n exactly when p is a position of the cube
\* and the cell there has facts[n] = v; each list is in insertion order.
IndexSound(cube) ==
  LET idx == cube.indecies
      cells == cube.cells
  IN  /\ DOMAIN idx = NamesOf(cube)
      /\ \A n \in DOMAIN idx : \A v \in DOMAIN idx[n] :
           /\ \A i \in 1..Len(idx[n][v]) :
                LET p == idx[n][v][i]
                IN  /\ p \in 0..(Len(cells) - 1)
                    /\ n \in DOMAIN cells[p + 1].facts
                    /\ cells[p + 1].facts[n] = v
           /\ \A i \in 1..(Len(idx[n][v]) - 1) : idx[n][v][i] < idx[n][v][i + 1]
      /\ \A p \in 0..(Len(cells) - 1) : \A n \in DOMAIN cells[p + 1].facts :
           /\ cells[p + 1].facts[n] \in DOMAIN idx[n]
           /\ p \in Range(idx[n][cells[p + 1].facts[n]])

IsPrefix(a, b) == Len(a) <= Len(b) /\ SubSeq(b, 1, Len(a)) = a

\* Nothing recorded in the cube before is missing or moved after.
Extends(before, after) ==
  /\ IsPrefix(before.cells, after.cells)
  /\ \A n \in DOMAIN before.indecies :
       /\ n \in DOMAIN after.indecies
       /\ \A v \in DOMAIN before.indecies[n] :
            /\ v \in DOMAIN after.indecies[n]
            /\ IsPrefix(before.indecies[n][v], after.indecies[n][v])

\* C3: after any sequence of insert and merge calls, every dimension name
\* of an inserted cell has one FactIndex, a position is recorded under a
\* value of a dimension exactly when the cell at that position carries it,
\* and recorded positions are appended in insertion order, never removed.
C3_IndexInvariant ==
  /\ \A c \in DOMAIN heap : IndexSound(heap[c])
  /\ [][/\ \A c \in DOMAIN heap' : IndexSound(heap'[c])
        /\ res'.op \in {"insert", "merge"} =>
             Extends(heap[res'.target], heap'[res'.target])]_vars

C3_Witness ==
  /\ res.op = "merge"
  /\ res.target = 1
  /\ Len(S.cells) = 3
  /\ Cardinality(DOMAIN S.indecies) = 2
  /\ \E n \in DOMAIN S.indecies : \E v \in DOMAIN S.indecies[n] :
       Len(S.indecies[n][v]) >= 2

TotalCount(cubes) ==
  LET f[i \in 0..Len(cubes)] == IF i = 0 THEN 0 ELSE f[i - 1] + Len(cubes[i])
  IN  f[Len(cubes)]

\* The cell carries dimension n, with any value or with a truthy one.
Carries(c, n, anyValue) ==
  n \in DOMAIN c.facts /\ (anyValue \/ Truthy(c.facts[n]))

\* The groups groupBy returned are those of the cells that carry the
\* dimension: one group for each value carried, holding exactly the cells
\* with that value, in order; when every cell carries the dimension the
\* group counts sum to the cube's count.
GroupsAreOf(anyValue) ==
  res.op = "groupBy" =>
    LET n == res.factName
        cells == S.cells
        Carry(c, m) == Carries(c, m, anyValue)
        carried == { cells[i].facts[n] : i \in { j \in 1..Len(cells) : Carry(cells[j], n) } }
    IN  /\ Len(res.keys) = Cardinality(carried)
        /\ Range(res.keys) = carried
        /\ \A i \in 1..Len(res.keys) :
             res.out[i] = SelectSeq(cells, LAMBDA c : Carry(c, n) /\ c.facts[n] = res.keys[i])
        /\ (\A i \in 1..Len(cells) : Carry(cells[i], n)) => TotalCount(res.out) = Count(S)

\* C4 as stated: groupBy(d) puts every cell that carries d, with any
\* value, the empty string included, in exactly the group of its own
\* value, and cells lacking d in none; with d on every cell the group
\* counts sum to count(S).
C4_GroupByAnyValue == GroupsAreOf(TRUE)

\* C4 amended: groupBy(d) puts every cell that carries a truthy value for
\* d in exactly the group of its own value; cells lacking d or carrying a
\* falsy value (the empty string) for it are in no group; with a truthy d
\* on every cell the group counts sum to count(S).
C4_GroupByTruthy == GroupsAreOf(FALSE)

C4_Witness ==
  /\ res.op = "groupBy"
  /\ res.factName = "g"
  /\ Len(res.keys) = 2
  /\ Len(S.cells) = 3
  /\ \E i \in 1..3 : S.cells[i].facts["g"] = ""

QueryOps == {"slice", "dice", "sliceTime", "sliceBy", "groupBy", "sortBy", "sliceTop"}

\* C5: producing a derived cube by slice, dice, sliceTime, sliceBy,
\* groupBy, sortBy or sliceTop leaves S's cells, indices and cache as they
\* were, and so does every later insert or merge on the derived cube.
C5_DerivedIndependent ==
  [][/\ res'.op \in QueryOps => heap'[1] = heap[1]
     /\ (res'.op \in {"insert", "merge"} /\ res'.target /= 1) => heap'[1] = heap[1]]_vars

C5_Witness ==
  /\ res.op = "insert"
  /\ res.target = 2
  /\ Len(heap[2].cells) = 2
  /\ Len(S.cells) = 1
  /\ heap[2].cells[1] = S.cells[1]

\* The cell was constructed with a timestamp t, fromTime <= t < toTime.
TimestampIn(cell, fromTime, toTime) ==
  \E a \in CellArgs :
    /\ Cell(a) = cell
    /\ IsDef(a.opt_time)
    /\ fromTime <= Val(a.opt_time)
    /\ Val(a.opt_time) < toTime

\* C6: for every fromTime and toTime, fromTime <= 0 included, sliceTime
\* returns exactly the cells that have a timestamp t with
\* fromTime <= t < toTime; a cell constructed without a timestamp is
\* never in the result.
C6_SliceTimeHalfOpen ==
  res.op = "sliceTime" =>
    res.out = SelectSeq(S.cells, LAMBDA c : TimestampIn(c, res.fromTime, res.toTime))

\* C7: on a non-empty cube, avg(count) with a falsy count (0, undefined)
\* returns for each measure the raw sum, as sum() gives it; with a truthy
\* count it returns the sum divided by count.
C7_AvgFalsyCount ==
  (res.op = "avg" /\ Count(S) > 0) =>
    \A k \in DOMAIN Sum(S) :
      /\ k \in DOMAIN res.out
      /\ IF ~IsDef(res.count) \/ Val(res.count) = 0
           THEN res.out[k] = Num(Sum(S)[k])
           ELSE /\ res.out[k].tag = "finite"
                /\ res.out[k].den /= 0
                /\ res.out[k].num * Val(res.count) = Sum(S)[k] * res.out[k].den

MeasureNames == {"v", "w"}

\* Every cell of the cube carries exactly the measures M, and an empty
\* cube has M as its expected-measure list.
CarriesMeasures(cube, M) ==
  /\ \A i \in 1..Len(cube.cells) : DOMAIN cube.cells[i].measures = M
  /\ Len(cube.cells) = 0 =>
       (IsDef(cube.measureNames) /\ Range(Val(cube.measureNames)) = M)

\* C8: for cubes A and B whose cells all carry the same measure names,
\* after A.merge(B) the sum of A is, measure by measure, the sum A had
\* plus the sum of B; also when A or B is empty with that measure set as
\* its expected-measure list, and when B is A.
C8_MergeAdditive ==
  [][(/\ res'.op = "merge"
      /\ \E M \in SUBSET MeasureNames :
           /\ CarriesMeasures(heap[res'.target], M)
           /\ CarriesMeasures(heap[res'.other], M))
     => LET before == Sum(heap[res'.target])
            other == Sum(heap[res'.other])
            after == Sum(heap'[res'.target])
        IN  /\ DOMAIN after = DOMAIN before
            /\ DOMAIN after = DOMAIN other
            /\ \A k \in DOMAIN after : after[k] = before[k] + other[k]]_vars

C8_Witness ==
  /\ res.op = "merge"
  /\ res.target = 2
  /\ res.other = 1
  /\ Len(S.cells) = 1
  /\ Len(heap[2].cells) = 2
  /\ \A i \in 1..2 : DOMAIN heap[2].cells[i].measures = {"v"}

\* Every two-constraint mapping, in one enumeration order.
AllPairs == { p \in Constraints \X Constraints : CodeUnit[p[1][1]] < CodeUnit[p[2][1]] }

\* C9: for every cube and every two mappings with the same constraints
\* in different orders, _getPos gives the same set of positions, and slice
\* and dice the same cells, also when a constraint names an unknown
\* dimension or value or when an intersection is empty.  (Stated where
\* the caller may query S.)
C9_OrderIndependent ==
  d = 0 => \A p \in AllPairs :
    LET q == <<p[1], p[2]>>
        r == <<p[2], p[1]>>
    IN  /\ IsDef(GetPos(S, q)) /\ IsDef(GetPos(S, r))
        /\ Range(Val(GetPos(S, q))) = Range(Val(GetPos(S, r)))
        /\ Out(Slice(heap, 1, q)) = Out(Slice(heap, 1, r))
        /\ Out(Dice(heap, 1, q, "throws")) = Out(Dice(heap, 1, r, "throws"))

C9_Witness ==
  /\ res.op = "slice"
  /\ Len(res.facts) = 2
  /\ Len(S.cells) = 3
  /\ Len(res.out) = 1
  /\ Len(Val(GetPos(S, <<res.facts[1]>>))) = 2
  /\ Len(Val(GetPos(S, <<res.facts[2]>>))) = 2

\* The list holds exactly the names, in ascending code-unit order.
IsSortedNames(list, names) ==
  /\ Range(list) = names
  /\ \A i \in 1..(Len(list) - 1) : CodeUnit[list[i]] < CodeUnit[list[i + 1]]

\* C10: the cached dimension-name list is never stale: after any
\* interleaving of insert, merge and getFactNames, a non-empty cache and
\* the list getFactNames returns are the sorted, duplicate-free names on
\* the cells inserted so far.
C10_FactNamesFresh ==
  /\ \A c \in DOMAIN heap :
       heap[c].factNames = << >> \/ IsSortedNames(heap[c].factNames, NamesOf(heap[c]))
  /\ res.op = "getFactNames" => IsSortedNames(res.out, NamesOf(S))

C10_Witness ==
  /\ res.op = "getFactNames"
  /\ IsDef(res.after)
  /\ Val(res.after) /= << >>
  /\ Range(res.out) /= Range(Val(res.after))
====
